---- MODULE Spec2Model ----
(***************************************************************************)
(* Model of the DockerBox lifecycle orchestrator (docker/box.go).          *)
(*                                                                         *)
(* A Box is owned by one pipeline, so its operations run one after the     *)
(* other; each operation is one action.  The results of the calls an       *)
(* operation makes to its collaborators (the container engine, the         *)
(* attached service boxes, the host file system) are inputs of the action. *)
(* Every action records the calls it issued, in order, in `log` and the    *)
(* error it returned in `ret`.                                             *)
(***************************************************************************)
EXTENDS Integers, Sequences, FiniteSets, TLC

\* ---- bounds ------------------------------------------------------------
MaxServices == 3      \* service boxes that can be attached
MaxContainers == 2    \* primary containers the engine hands out
MaxImages == 2        \* images the engine hands out to Commit

\* ---- values ------------------------------------------------------------
Nil == "nil"                           \* the nil error
NilContainer == <<"nil">>              \* the nil *docker.Container
ErrService == "service.Run failed"     \* the errors the collaborators return
ErrCreate == "CreateContainer failed"
ErrReadDir == "ReadDir failed"
ErrStart == "StartContainer failed"
ErrStop == "StopContainer failed"
ErrRemove == "RemoveContainer failed"
ErrRemoveImage == "RemoveImage failed"
ErrCommit == "CommitContainer failed"
ErrRestart == "RestartContainer failed"
ErrNoSuchContainer == "NoSuchContainer"
ErrNoSuchImage == "NoSuchImage"
ErrNotRunning == "ContainerNotRunning" \* *docker.ContainerNotRunning
ErrTokenize == "shlexError"
PanicNilContainer == "panic: nil pointer dereference"
EmptyID == <<>>                        \* the empty string returned by GetID

ServiceBoxes == 1 .. MaxServices
BoxCID(n) == <<"box", n>>              \* ID of the n-th primary container
SvcCID(s) == <<"svc", s>>              \* ID of service s's container
ImgID(n) == <<"img", n>>               \* ID of the n-th committed image

ServiceArg(s) == <<"service", s>>      \* a service box as the target of a call
NoArg == <<>>

RemoveOpts == {"RemoveVolumes", "Force"}
NoOpts == {}

VARIABLES
    services,       \* b.services: attached service boxes, in insertion order
    container,      \* b.container: ID of the recorded handle, or NilContainer
    images,         \* b.images: IDs of the committed images, in commit order
    shouldCommit,   \* b.options.ShouldCommit
    cmdSplits,      \* whether shlex.Split accepts b.cmd and b.entrypoint
    svcContainer,   \* per service box: its own container handle (ID or NilContainer)
    engine,         \* container IDs that exist in the engine
    engineImages,   \* image IDs that exist in the engine
    created,        \* number of primary containers the engine has created
    committed,      \* number of images the engine has created
    lastOp,         \* the operation that ran last
    log,            \* the calls that operation issued, in order
    ret,            \* the error that operation returned (Nil for none)
    dockerLocal,    \* b.dockerOptions.DockerLocal
    repository,     \* b.repository
    cachedImage,    \* b.image: the cached image handle, or NilImage
    fetches,        \* number of Fetch calls made so far
    fpc,            \* where Fetch is: "idle", "pull" (inside PullImage), "returned"
    tasks,          \* per Fetch that made a pipe: the pipe and its emitter task
    flog,           \* the client calls of the current or last Fetch, in order
    fret,           \* what the last Fetch returned: [image, err]
    boxConfigID,    \* boxConfig.ID given to NewDockerBox
    boxConfigTag,   \* boxConfig.Tag given to NewDockerBox
    newBox,         \* what NewDockerBox returned, or NotConstructed
    published,      \* the publish specs given to portBindings
    portsPc,        \* "idle", or "done" once portBindings has returned
    portMap,        \* the map portBindings returned
    archiveOp,      \* which of Single, Multi, SingleBytes is called
    tarball,        \* a.stream: the entries of the tar stream
    tarEnd,         \* how the stream ends after them
    pos,            \* index of the entry tarball.Next() gives next
    apc,            \* the caller: "idle", "called" (in the operation), "returned"
    gpc,            \* the goroutine: "none", "stream", "send", "sent", "done", "panicked"
    processors,     \* state of the empty check, the size check and the extraction
    cleaned,        \* what the deferred extract.Clean() found when it ran
    renamed,        \* Multi's extract.Rename: "no", "done", "failed"
    sending,        \* the value the goroutine sends on errs
    errsClosed,     \* whether errs is closed
    delivered       \* the values received from errs, in order

fetchVars == <<dockerLocal, repository, cachedImage, fetches, fpc, tasks, flog, fret>>

\* What the lifecycle operations (Run, Stop, Clean, ...) never touch.
pureVars == <<boxConfigID, boxConfigTag, newBox, published, portsPc, portMap>>

archiveVars == <<archiveOp, tarball, tarEnd, pos, apc, gpc, processors, cleaned,
                 renamed, sending, errsClosed, delivered>>

otherVars == <<fetchVars, pureVars, archiveVars>>

lifecycleVars == <<services, container, images, shouldCommit, cmdSplits,
                   svcContainer, engine, engineImages, created, committed,
                   lastOp, log, ret>>

vars == <<lifecycleVars, otherVars>>

boxVars == <<services, container, images>>
cfgVars == <<shouldCommit, cmdSplits>>

\* ---- helpers -----------------------------------------------------------
Range(f) == {f[i] : i \in DOMAIN f}

Call(op, arg, links, opts, res) ==
    [op |-> op, arg |-> arg, links |-> links, opts |-> opts, res |-> res]

\* The calls of one kind in a log, in order.
RECURSIVE SelectOp(_, _)
SelectOp(l, op) ==
    IF l = <<>> THEN <<>>
    ELSE IF Head(l).op = op THEN <<Head(l)>> \o SelectOp(Tail(l), op)
         ELSE SelectOp(Tail(l), op)

Args(l) == [i \in DOMAIN l |-> l[i].arg]

\* The first index from i on of a call of l that failed, or 0.
RECURSIVE FirstFailure(_, _)
FirstFailure(l, i) ==
    IF i > Len(l) THEN 0
    ELSE IF l[i].res # Nil THEN i ELSE FirstFailure(l, i + 1)

Reverse(s) == [i \in 1 .. Len(s) |-> s[Len(s) + 1 - i]]

\* ---- collaborators -----------------------------------------------------
\* service.Link(): the link string of a service box.
Link(s) == <<"link", s>>

\* service.GetID(): the container ID or empty string if there is no container.
GetID(sc, s) == IF sc[s] # NilContainer THEN sc[s] ELSE EmptyID

\* Results of the service.Run calls of one RunServices, by position.  The
\* loop stops at the first failure, so one failing position is enough.
SvcOracles(n) ==
    {[i \in 1 .. MaxServices |-> IF i = k THEN ErrService ELSE Nil] :
        k \in 0 .. n}

\* Engine: a container name is unique, so CreateContainer is refused while a
\* container of this pipeline still exists.
ErrConflict == "ContainerAlreadyExists"
CreateResult(eng, want) ==
    IF \E c \in eng : c[1] = "box" THEN ErrConflict ELSE want

\* Engine: a container that does not exist cannot be removed.
RemoveResult(eng, id, want) ==
    IF id \notin eng THEN ErrNoSuchContainer ELSE want

RemoveImageResult(imgs, id, want) ==
    IF id \notin imgs THEN ErrNoSuchImage ELSE want

CommitResult(eng, id, want) ==
    IF id \notin eng THEN ErrNoSuchContainer ELSE want

RestartResult(eng, id, want) ==
    IF id \notin eng THEN ErrNoSuchContainer ELSE want

\* ---- DockerBox.links ---------------------------------------------------
RECURSIVE links(_)
\* A links() that lists the most recently attached service first.
linksNewestFirst(svcs) ==
    IF svcs = <<>> THEN <<>>
    ELSE links(Tail(svcs)) \o <<Link(Head(svcs))>>

links(svcs) ==
    IF svcs = <<>> THEN <<>>
    ELSE <<Link(Head(svcs))>> \o links(Tail(svcs))

\* ---- DockerBox.RunServices ---------------------------------------------
\* links = append(links, service.Link())
NextLinksPrepend(acc, service) == <<Link(service)>> \o acc
NextLinks(acc, service) == Append(acc, Link(service))

\* if err != nil { return err }
ServiceRunContinues(err) == FALSE
ServiceRunFailed(err) == err # Nil

\* The loop from service i on.  st carries the link list accumulated so
\* far, the calls issued and the services that were started.
RECURSIVE RunServicesLoop(_, _, _, _)
RunServicesLoop(svcs, i, out, st) ==
    IF i > Len(svcs)
    THEN [err |-> Nil, links |-> st.links, log |-> st.log,
          started |-> st.started]
    ELSE LET service == svcs[i]
             err == out[i]
             call == Call("service.Run", ServiceArg(service), st.links, NoOpts, err)
         IN  IF ServiceRunFailed(err)
             THEN [err |-> err, links |-> st.links,
                   log |-> Append(st.log, call), started |-> st.started]
             ELSE RunServicesLoop(svcs, i + 1, out,
                      [links |-> NextLinks(st.links, service),
                       log |-> Append(st.log, call),
                       started |-> IF err = Nil
                                   THEN st.started \cup {service}
                                   ELSE st.started])

RunServicesResult(svcs, out) ==
    RunServicesLoop(svcs, 1, out,
                    [links |-> <<>>, log |-> <<>>, started |-> {}])

\* What a successful service.Run leaves behind: the service box holds a
\* container, and the engine holds that container.
ServicesStarted(sc, started) ==
    [s \in ServiceBoxes |-> IF s \in started THEN SvcCID(s) ELSE sc[s]]

RunServices(out) ==
    LET r == RunServicesResult(services, out)
    IN  /\ svcContainer' = ServicesStarted(svcContainer, r.started)
        /\ engine' = engine \cup {SvcCID(s) : s \in r.started}
        /\ lastOp' = "RunServices"
        /\ log' = r.log
        /\ ret' = r.err
        /\ UNCHANGED otherVars
        /\ UNCHANGED <<boxVars, cfgVars, engineImages, created, committed>>

\* ---- DockerBox.Run -----------------------------------------------------
\* o.svc: results of service.Run; o.create, o.readDir, o.start: results of
\* CreateContainer, ioutil.ReadDir (in binds) and StartContainer.
\* Run makes no call after the first one that fails, except StartContainer,
\* so the oracles with one failure cover every run.
RunOracles(n) ==
    LET ok == [svc |-> [i \in 1 .. MaxServices |-> Nil], create |-> Nil,
               readDir |-> Nil, start |-> Nil]
    IN  {[ok EXCEPT !.svc = out] : out \in SvcOracles(n)}
        \cup {[ok EXCEPT !.create = ErrCreate],
              [ok EXCEPT !.readDir = ErrReadDir],
              [ok EXCEPT !.start = ErrStart]}

\* err := b.RunServices(ctx, env); if err != nil { return nil, err }
RunServicesIgnored(err) == FALSE
RunServicesFailed(err) == err # Nil

RunResult(o) ==
    LET r == RunServicesResult(services, o.svc)
        eng1 == engine \cup {SvcCID(s) : s \in r.started}
        createErr == CreateResult(eng1, o.create)
        id == BoxCID(created + 1)
        createCall == Call("CreateContainer", NoArg, <<>>, NoOpts, createErr)
        bindsCall == Call("ReadDir", NoArg, <<>>, NoOpts, o.readDir)
        startCall == Call("StartContainer", id, links(services), NoOpts,
                          o.start)
        base == [started |-> r.started, engine |-> eng1,
                 container |-> container, created |-> created,
                 log |-> r.log, ret |-> r.err]
    IN  IF RunServicesFailed(r.err)
        THEN base
        ELSE IF ~cmdSplits
        THEN [base EXCEPT !.ret = ErrTokenize]
        ELSE IF createErr # Nil
        THEN [base EXCEPT !.log = Append(r.log, createCall),
                          !.ret = createErr]
        ELSE IF o.readDir # Nil
        THEN [base EXCEPT !.log = r.log \o <<createCall, bindsCall>>,
                          !.ret = o.readDir,
                          !.engine = eng1 \cup {id},
                          !.created = created + 1]
        ELSE [base EXCEPT !.log = r.log \o <<createCall, bindsCall, startCall>>,
                          !.ret = Nil,
                          !.engine = eng1 \cup {id},
                          !.created = created + 1,
                          !.container = id]

Run(o) ==
    LET r == RunResult(o)
    IN  /\ created < MaxContainers
        /\ svcContainer' = ServicesStarted(svcContainer, r.started)
        /\ engine' = r.engine
        /\ created' = r.created
        /\ container' = r.container
        /\ lastOp' = "Run"
        /\ log' = r.log
        /\ ret' = r.ret
        /\ UNCHANGED otherVars
        /\ UNCHANGED <<services, images, cfgVars, engineImages, committed>>

\* ---- DockerBox.AddService ----------------------------------------------
\* Service boxes are interchangeable, so they are attached in the order of
\* their numbers.
AddService(service) ==
    /\ Len(services) < MaxServices
    /\ service = Len(services) + 1
    /\ services' = Append(services, service)
    /\ lastOp' = "AddService"
    /\ log' = <<>>
    /\ ret' = Nil
    /\ UNCHANGED otherVars
    /\ UNCHANGED <<container, images, cfgVars, svcContainer, engine,
                   engineImages, created, committed>>

\* ---- DockerBox.Commit --------------------------------------------------
\* b.images = append(b.images, image)
AppendImageInFront(imgs, image) == <<image>> \o imgs
AppendImage(imgs, image) == Append(imgs, image)

Commit(want) ==
    LET err == CommitResult(engine, container, want)
        image == ImgID(committed + 1)
        call == Call("CommitContainer", container, <<>>, NoOpts, err)
    IN  /\ committed < MaxImages
        /\ lastOp' = "Commit"
        /\ IF container = NilContainer
           THEN \* b.container.ID dereferences a nil pointer
                /\ log' = <<>>
                /\ ret' = PanicNilContainer
                /\ UNCHANGED <<images, engineImages, committed>>
           ELSE IF err # Nil
           THEN /\ log' = <<call>>
                /\ ret' = err
                /\ UNCHANGED <<images, engineImages, committed>>
           ELSE /\ log' = <<call>>
                /\ ret' = Nil
                /\ images' = AppendImage(images, image)
                /\ engineImages' = engineImages \cup {image}
                /\ committed' = committed + 1
        /\ UNCHANGED otherVars
        /\ UNCHANGED <<services, container, cfgVars, svcContainer, engine,
                       created>>

\* ---- DockerBox.Restart -------------------------------------------------
Restart(want) ==
    LET err == RestartResult(engine, container, want)
        call == Call("RestartContainer", container, <<>>, NoOpts, err)
    IN  /\ lastOp' = "Restart"
        /\ IF container = NilContainer
           THEN \* b.container.ID dereferences a nil pointer
                /\ log' = <<>>
                /\ ret' = PanicNilContainer
           ELSE /\ log' = <<call>>
                /\ ret' = err
        /\ UNCHANGED otherVars
        /\ UNCHANGED <<boxVars, cfgVars, svcContainer, engine, engineImages,
                       created, committed>>

\* ---- DockerBox.Stop ----------------------------------------------------
StopOutcomes == {Nil, ErrNotRunning, ErrStop}

\* out[i]: result of the i-th StopContainer call, of n calls.  Either one
\* call has any result and the others succeed, or every call fails, one of
\* them or all of them with ContainerNotRunning.
StopOracles(n) ==
    IF n = 0 THEN {<<>>}
    ELSE {[i \in 1 .. n |-> IF i = k THEN one ELSE Nil] :
             k \in 1 .. n, one \in StopOutcomes}
         \cup {[i \in 1 .. n |-> IF i = k THEN ErrNotRunning ELSE ErrStop] :
                 k \in 1 .. n}
         \cup {[i \in 1 .. n |-> ErrNotRunning]}

\* A Stop that returns at the first stop call that fails.
StopServiceCallsAbort(svcs, sc, out) ==
    LET l == [i \in 1 .. Len(svcs) |->
                 Call("StopContainer", GetID(sc, svcs[i]), <<>>, NoOpts, out[i])]
        k == FirstFailure(l, 1)
    IN  IF k = 0 THEN l ELSE SubSeq(l, 1, k)

StopServiceCalls(svcs, sc, out) ==
    [i \in 1 .. Len(svcs) |->
        Call("StopContainer", GetID(sc, svcs[i]), <<>>, NoOpts, out[i])]

StopLog(svcs, sc, cont, out) ==
    LET l == StopServiceCalls(svcs, sc, out)
    IN  IF cont # NilContainer
        THEN Append(l, Call("StopContainer", cont, <<>>, NoOpts,
                            out[Len(svcs) + 1]))
        ELSE l

Stop(out) ==
    /\ lastOp' = "Stop"
    /\ log' = StopLog(services, svcContainer, container, out)
    /\ ret' = Nil
    /\ UNCHANGED otherVars
    /\ UNCHANGED <<boxVars, cfgVars, svcContainer, engine, engineImages,
                   created, committed>>

\* ---- DockerBox.Clean ---------------------------------------------------
\* The IDs of the services that report one, in service order.
RECURSIVE ServiceIDs(_, _)
ServiceIDs(svcs, sc) ==
    IF svcs = <<>> THEN <<>>
    ELSE LET containerID == GetID(sc, Head(svcs))
         IN  IF containerID # EmptyID
             THEN <<containerID>> \o ServiceIDs(Tail(svcs), sc)
             ELSE ServiceIDs(Tail(svcs), sc)

CleanContainersServicesFirst(cont, svcs, sc) ==
    ServiceIDs(svcs, sc) \o (IF cont # NilContainer THEN <<cont>> ELSE <<>>)

CleanContainers(cont, svcs, sc) ==
    (IF cont # NilContainer THEN <<cont>> ELSE <<>>) \o ServiceIDs(svcs, sc)

\* err := client.RemoveContainer(opts); if err != nil { return err }
RemoveContinues(err) == FALSE
RemoveFailed(err) == err # Nil

\* The removal loop from entry i on; st carries the engine's containers and
\* the calls issued.
RECURSIVE RemoveLoop(_, _, _, _)
RemoveLoop(containers, i, out, st) ==
    IF i > Len(containers)
    THEN [err |-> Nil, engine |-> st.engine, log |-> st.log]
    ELSE LET err == RemoveResult(st.engine, containers[i], out[i])
             call == Call("RemoveContainer", containers[i], <<>>, RemoveOpts,
                          err)
         IN  IF RemoveFailed(err)
             THEN [err |-> err, engine |-> st.engine,
                   log |-> Append(st.log, call)]
             ELSE RemoveLoop(containers, i + 1, out,
                      [engine |-> IF err = Nil
                                  THEN st.engine \ {containers[i]}
                                  ELSE st.engine,
                       log |-> Append(st.log, call)])

\* The image loop, from index i down to 1.
RECURSIVE RemoveImagesLoop(_, _, _, _)
\* An image loop that returns at the first image removal that fails.
RemoveImagesUntilError(imgs, i, out, st) ==
    IF i < 1
    THEN st
    ELSE LET err == RemoveImageResult(st.engineImages, imgs[i], out[i])
             call == Call("RemoveImage", imgs[i], <<>>, NoOpts, err)
         IN  IF err # Nil
             THEN [engineImages |-> st.engineImages,
                   log |-> Append(st.log, call)]
             ELSE RemoveImagesLoop(imgs, i - 1, out,
                      [engineImages |-> st.engineImages \ {imgs[i]},
                       log |-> Append(st.log, call)])

\* An image loop that removes the oldest image first.
RemoveImagesOldestFirst(imgs, i, out, st) ==
    IF i < 1
    THEN st
    ELSE LET j == Len(imgs) + 1 - i
             err == RemoveImageResult(st.engineImages, imgs[j], out[j])
             call == Call("RemoveImage", imgs[j], <<>>, NoOpts, err)
         IN  RemoveImagesLoop(imgs, i - 1, out,
                 [engineImages |-> IF err = Nil
                                   THEN st.engineImages \ {imgs[j]}
                                   ELSE st.engineImages,
                  log |-> Append(st.log, call)])

RemoveImagesLoop(imgs, i, out, st) ==
    IF i < 1
    THEN st
    ELSE LET err == RemoveImageResult(st.engineImages, imgs[i], out[i])
             call == Call("RemoveImage", imgs[i], <<>>, NoOpts, err)
         IN  RemoveImagesLoop(imgs, i - 1, out,
                 [engineImages |-> IF err = Nil
                                   THEN st.engineImages \ {imgs[i]}
                                   ELSE st.engineImages,
                  log |-> Append(st.log, call)])

\* o.rm[i]: result the engine gives the i-th RemoveContainer call when the
\* container exists; o.img[i]: likewise for RemoveImage of b.images[i].  At
\* most one call of each kind fails on an existing container or image.
CleanOracles(n, m) ==
    [rm : {[i \in 1 .. MaxServices + 1 |-> IF i = k THEN ErrRemove ELSE Nil] :
              k \in 0 .. n},
     img : {[i \in 1 .. m |-> IF i = k THEN ErrRemoveImage ELSE Nil] :
               k \in 0 .. m}]

CleanResult(o) ==
    LET containers == CleanContainers(container, services, svcContainer)
        r == RemoveLoop(containers, 1, o.rm, [engine |-> engine, log |-> <<>>])
        im == RemoveImagesLoop(images, Len(images), o.img,
                  [engineImages |-> engineImages, log |-> r.log])
    IN  IF RemoveFailed(r.err)
        THEN [ret |-> r.err, engine |-> r.engine,
              engineImages |-> engineImages, log |-> r.log]
        ELSE IF ~shouldCommit
        THEN [ret |-> Nil, engine |-> r.engine,
              engineImages |-> im.engineImages, log |-> im.log]
        ELSE [ret |-> Nil, engine |-> r.engine,
              engineImages |-> engineImages, log |-> r.log]

\* Clean returns without assigning b.container.
HandleClearedAfterClean(c, err) == IF err = Nil THEN NilContainer ELSE c
HandleAfterClean(c, err) == c

Clean(o) ==
    LET r == CleanResult(o)
    IN  /\ lastOp' = "Clean"
        /\ log' = r.log
        /\ ret' = r.ret
        /\ engine' = r.engine
        /\ engineImages' = r.engineImages
        /\ container' = HandleAfterClean(container, r.ret)
        /\ UNCHANGED otherVars
        /\ UNCHANGED <<services, images, cfgVars, svcContainer, created,
                       committed>>

\* ---- DockerBox.Fetch ---------------------------------------------------
MaxFetches == 2        \* Fetch calls explored
MaxChunks == 2         \* progress chunks one pull writes to its pipe

Repositories == {"repoA", "repoB"}

NilImage == <<"nil image">>            \* a nil *docker.Image
Inspected(n) == <<"inspected", n>>     \* the handle InspectImage returns in Fetch n

NoError == <<>>
ErrNoEmitter == <<"no emitter in context">>
ErrCheckAccess == <<"CheckAccess failed">>
ErrPull == <<"PullImage failed">>
ErrInspect == <<"InspectImage failed">>
Pending == <<"pending">>               \* a call that has not returned yet
\* fmt.Errorf("Not allowed to interact with this repository: %s", b.repository)
ErrAccessDenied(repo) == <<"Not allowed to interact with this repository:", repo>>

FetchCall(op, ok, err) == [op |-> op, ok |-> ok, err |-> err]
FetchReturn(img, err) == [image |-> img, err |-> err]

\* io.Pipe(): nothing written, write end open; go EmitStatus(e, r, b.options)
NewTask == [data |-> 0, written |-> 0, closed |-> FALSE, emitter |-> "reading"]

\* check, err := client.CheckAccess(checkOpts): Fetch goes on to the pull
CheckAccessNoError(c) == c.err = NoError
CheckAccessPassed(c) == c.err = NoError /\ c.ok

\* defer w.Close(): runs on every return after the pipe was made
CloseWriterOnSuccess(ts, n, err) ==
    IF err = NoError THEN [ts EXCEPT ![n].closed = TRUE] ELSE ts
CloseWriter(ts, n, err) == [ts EXCEPT ![n].closed = TRUE]

\* return nil, err  at the end of the remote path
RemoteReturnInspected(img) == img
RemoteReturn(img) == NilImage

\* o.emitter: EmitterFromContext finds an emitter; o.inspect: InspectImage's
\* error on the local path; o.check, o.checkErr: CheckAccess's results.
FetchOracles ==
    [emitter : BOOLEAN, inspect : {NoError, ErrInspect},
     check : BOOLEAN, checkErr : {NoError, ErrCheckAccess}]

\* Fetch from its entry to its return, or to the point where it is inside
\* client.PullImage with the emitter task started.
FetchBegin(o) ==
    LET n == fetches + 1
        inspect == FetchCall("InspectImage", o.inspect = NoError, o.inspect)
        check == FetchCall("CheckAccess", o.check, o.checkErr)
    IN  /\ fpc # "pull"
        /\ fetches < MaxFetches
        /\ fetches' = n
        /\ IF ~o.emitter
           THEN /\ flog' = <<>>
                /\ fret' = FetchReturn(NilImage, ErrNoEmitter)
                /\ fpc' = "returned"
                /\ UNCHANGED <<cachedImage, tasks>>
           ELSE IF dockerLocal
           THEN /\ flog' = <<inspect>>
                /\ fpc' = "returned"
                /\ IF o.inspect # NoError
                   THEN /\ fret' = FetchReturn(NilImage, o.inspect)
                        /\ UNCHANGED cachedImage
                   ELSE /\ cachedImage' = Inspected(n)
                        /\ fret' = FetchReturn(Inspected(n), NoError)
                /\ UNCHANGED tasks
           ELSE IF check.err # NoError
           THEN /\ flog' = <<check>>
                /\ fret' = FetchReturn(NilImage, check.err)
                /\ fpc' = "returned"
                /\ UNCHANGED <<cachedImage, tasks>>
           ELSE IF ~CheckAccessPassed(check)
           THEN /\ flog' = <<check>>
                /\ fret' = FetchReturn(NilImage, ErrAccessDenied(repository))
                /\ fpc' = "returned"
                /\ UNCHANGED <<cachedImage, tasks>>
           ELSE /\ flog' = <<check, FetchCall("PullImage", FALSE, Pending)>>
                /\ tasks' = Append(tasks, NewTask)
                /\ fpc' = "pull"
                /\ UNCHANGED <<cachedImage, fret>>
        /\ UNCHANGED <<dockerLocal, repository, lifecycleVars, pureVars, archiveVars>>

\* client.PullImage writes one chunk of progress to options.OutputStream.
\* A write on an io.Pipe returns only after the reader has consumed it.
PullWrite ==
    LET n == Len(tasks)
    IN  /\ fpc = "pull"
        /\ tasks[n].data = 0
        /\ tasks[n].written < MaxChunks
        /\ tasks' = [tasks EXCEPT ![n].data = 1, ![n].written = @ + 1]
        /\ UNCHANGED <<dockerLocal, repository, cachedImage, fetches, fpc, flog, fret,
                       lifecycleVars, pureVars, archiveVars>>

PullOracles == [pull : {NoError, ErrPull}, inspect : {NoError, ErrInspect}]

\* client.PullImage returns (its last write is through), then the rest of
\* Fetch up to its return.
PullReturn(o) ==
    LET n == Len(tasks)
        pull == FetchCall("PullImage", o.pull = NoError, o.pull)
        inspect == FetchCall("InspectImage", o.inspect = NoError, o.inspect)
        err == IF o.pull # NoError THEN o.pull ELSE o.inspect
    IN  /\ fpc = "pull"
        /\ tasks[n].data = 0
        /\ fpc' = "returned"
        /\ IF o.pull # NoError
           THEN /\ flog' = <<flog[1], pull>>
                /\ fret' = FetchReturn(NilImage, o.pull)
                /\ UNCHANGED cachedImage
           ELSE IF o.inspect # NoError
           THEN /\ flog' = <<flog[1], pull, inspect>>
                /\ fret' = FetchReturn(NilImage, o.inspect)
                /\ UNCHANGED cachedImage
           ELSE /\ flog' = <<flog[1], pull, inspect>>
                /\ cachedImage' = Inspected(fetches)
                /\ fret' = FetchReturn(RemoteReturn(Inspected(fetches)), NoError)
        /\ tasks' = CloseWriter(tasks, n, err)
        /\ UNCHANGED <<dockerLocal, repository, fetches, lifecycleVars, pureVars, archiveVars>>

\* One read of the emitter task of Fetch n on its end of the pipe: a chunk,
\* or end-of-stream once the write end is closed, after which the task ends.
EmitRead(n) ==
    /\ n \in DOMAIN tasks
    /\ tasks[n].emitter = "reading"
    /\ IF tasks[n].data = 1
       THEN tasks' = [tasks EXCEPT ![n].data = 0]
       ELSE /\ tasks[n].closed
            /\ tasks' = [tasks EXCEPT ![n].emitter = "done"]
    /\ UNCHANGED <<dockerLocal, repository, cachedImage, fetches, fpc, flog, fret,
                   lifecycleVars, pureVars, archiveVars>>

\* ---- strings -----------------------------------------------------------
\* A string is a sequence of characters (one-character strings, or a word
\* such as "latest" standing for its characters).
Contains(s, c) == \E i \in 1 .. Len(s) : s[i] = c

\* strings.Split(s, sep) for a one-character sep: the parts between the
\* separators, one more than there are separators.
RECURSIVE SplitFrom(_, _, _, _)
SplitFrom(s, sep, cur, acc) ==
    IF s = <<>> THEN Append(acc, cur)
    ELSE IF Head(s) = sep THEN SplitFrom(Tail(s), sep, <<>>, Append(acc, cur))
    ELSE SplitFrom(Tail(s), sep, Append(cur, Head(s)), acc)

Split(s, sep) == SplitFrom(s, sep, <<>>, <<>>)

RECURSIVE Join(_, _)
Join(parts, sep) ==
    IF Len(parts) = 0 THEN <<>>
    ELSE IF Len(parts) = 1 THEN parts[1]
    ELSE parts[1] \o <<sep>> \o Join(Tail(parts), sep)

RECURSIVE Strings(_, _)
Strings(alphabet, n) ==
    IF n = 0 THEN {<<>>}
    ELSE LET shorter == Strings(alphabet, n - 1)
         IN  shorter \cup {Append(s, c) : s \in shorter, c \in alphabet}

\* ---- NewDockerBox ------------------------------------------------------
MaxIdLen == 4          \* longest boxConfig.ID explored

Identifiers == Strings({"a", "/", ":", "@"}, MaxIdLen)
Tags == {<<>>, <<"t">>}                \* boxConfig.Tag
Latest == <<"latest">>

ErrInvalidName == "Invalid box name, '@' is not allowed in docker repositories."
ErrNewClient == "NewDockerClient failed"

NotConstructed == [state |-> "none"]
NoBox(err) == [state |-> "error", err |-> err]
Box(name, shortName, repo, tag) ==
    [state |-> "box", Name |-> name, ShortName |-> shortName,
     repository |-> repo, tag |-> tag]

\* tag = parts[1]
EmbeddedTag(parts) == parts[2]

NewDockerBoxResult(id, explicit, clientErr) ==
    LET parts == Split(id, ":")
        repo == parts[1]
        tag == IF explicit # <<>> THEN explicit
               ELSE IF Len(parts) > 1 THEN EmbeddedTag(parts)
               ELSE Latest
        name == repo \o <<":">> \o tag
        repoParts == Split(repo, "/")
        shortName == IF Len(repoParts) > 1 THEN repoParts[Len(repoParts)]
                     ELSE repo
    IN  IF Contains(id, "@") THEN NoBox(ErrInvalidName)
        ELSE IF clientErr # Nil THEN NoBox(clientErr)
        ELSE Box(name, shortName, repo, tag)

\* ---- portBindings ------------------------------------------------------
MaxSpecs == 2          \* longest list of publish specs explored

ContainerFields == {<<>>, <<"80">>, <<"80", "/", "udp">>}
HostFields == {<<>>, <<"8080">>, <<"8080", "/", "tcp">>}
IPFields == {<<>>, <<"10.0.0.1">>}

\* Publish specs of one, two, three and four fields.
PortDefs ==
    ContainerFields
    \cup {Join(<<h, c>>, ":") : h \in HostFields, c \in ContainerFields}
    \cup {Join(<<ip, h, c>>, ":") :
            ip \in IPFields, h \in HostFields, c \in ContainerFields}
    \cup {Join(<<ip, ip, <<"8080">>, <<"80">> >>, ":") : ip \in IPFields}

RECURSIVE Lists(_, _)
Lists(S, n) ==
    IF n = 0 THEN {<<>>}
    ELSE LET shorter == Lists(S, n - 1)
         IN  shorter \cup {Append(l, x) : l \in shorter, x \in S}

PortBinding(hostPort, ip) == [HostPort |-> hostPort, HostIP |-> ip]

EmptyMap == [k \in {} |-> <<>>]
Put(map, key, value) ==
    [k \in DOMAIN map \cup {key} |-> IF k = key THEN value ELSE map[k]]

\* hostParts := strings.Split(hostPort, "/"); hostPort = hostParts[0]
HostPortUnstripped(hostPort) == hostPort
HostPortOf(hostPort) == Split(hostPort, "/")[1]

\* One round of the loop over published.
PortDefBinding(outer, portdef) ==
    LET parts == Split(portdef, ":")
        ip == IF Len(parts) = 3 THEN parts[1] ELSE <<>>
        hostField == IF Len(parts) = 3 THEN parts[2]
                     ELSE IF Len(parts) \in {1, 2} THEN parts[1]
                     ELSE <<>>
        containerField == IF Len(parts) \in {1, 2, 3} THEN parts[Len(parts)]
                          ELSE <<>>
        containerPort == IF ~Contains(containerField, "/")
                         THEN containerField \o <<"/", "tcp">>
                         ELSE containerField
        hostPort == IF hostField = <<>> THEN containerPort ELSE hostField
    IN  Put(outer, containerPort, <<PortBinding(HostPortOf(hostPort), ip)>>)

RECURSIVE portBindingsFrom(_, _)
portBindingsFrom(outer, published_) ==
    IF published_ = <<>> THEN outer
    ELSE portBindingsFrom(PortDefBinding(outer, Head(published_)),
                          Tail(published_))

portBindings(published_) == portBindingsFrom(EmptyMap, published_)

\* ---- the pure functions as operations ---------------------------------
NewDockerBox(clientErr) ==
    /\ newBox = NotConstructed
    /\ newBox' = NewDockerBoxResult(boxConfigID, boxConfigTag, clientErr)
    /\ UNCHANGED <<boxConfigID, boxConfigTag, published, portsPc, portMap,
                   lifecycleVars, fetchVars, archiveVars>>

PortBindingsCall ==
    /\ portsPc = "idle"
    /\ portMap' = portBindings(published)
    /\ portsPc' = "done"
    /\ UNCHANGED <<boxConfigID, boxConfigTag, newBox, published,
                   lifecycleVars, fetchVars, archiveVars>>

\* ---- Archive (archive.go) ---------------------------------------------
MaxEntries == 2        \* longest tarball explored

MaxSize == 3           \* the maxSize given to Single and Multi
Source == "src"        \* the source given to Single and SingleBytes

ErrEmptyTarball == "empty tarball"
ErrMaxSize == "Size exceeds maximum size"
ErrIO == "file system or copy error"
NoTempDir == ""
TempDir == "tar-1"     \* the directory ioutil.TempDir makes

ArchiveOps == {"Single", "Multi", "SingleBytes"}
Extracting == {"Single", "Multi"}      \* the operations with an ArchiveExtract

\* A tar header: its name, whether it is a directory, its size.
Entries ==
    [name : {"./", Source, "other"}, dir : BOOLEAN, size : {1, 2}]
    \ [name : {"./"}, dir : {FALSE}, size : {1, 2}]

\* How tarball.Next() ends after the last entry: io.EOF, or another error.
StreamEnds == {"EOF", "error"}

\* The processors' state.
NewProcessors ==
    [hasFiles |-> FALSE, currentSize |-> 0, tempDir |-> NoTempDir,
     dirExists |-> FALSE, err |-> Nil]

\* ArchiveSingle.Process: hdr is nil unless the names agree.
SingleSkips(op, entry) == op \in {"Single", "SingleBytes"} /\ entry.name # Source

\* ArchiveCheckEmpty.Process
CheckEmpty(p, entry) == [p EXCEPT !.hasFiles = @ \/ ~entry.dir]

\* ArchiveMaxSize.Process
CheckMaxSize(p, entry) ==
    LET size == p.currentSize + entry.size
    IN  [p EXCEPT !.currentSize = size,
                  !.err = IF size >= MaxSize THEN ErrMaxSize ELSE Nil]

\* ArchiveExtract.Process.  io: "ok", or which call fails: "tempdir"
\* (ioutil.TempDir) or "write" (MkdirAll, OpenFile, io.Copy).
Extract(p, entry, io) ==
    LET made == p.tempDir = NoTempDir
        q == IF made
             THEN [p EXCEPT !.tempDir = TempDir, !.dirExists = TRUE]
             ELSE p
    IN  IF made /\ io = "tempdir" THEN [p EXCEPT !.err = ErrIO]
        ELSE IF entry.dir
        THEN \* os.MkdirAll makes the missing parents too
             IF io = "write" THEN [q EXCEPT !.err = ErrIO]
             ELSE [q EXCEPT !.dirExists = TRUE]
        ELSE \* os.OpenFile fails in a directory that is gone
             IF io = "write" \/ ~q.dirExists THEN [q EXCEPT !.err = ErrIO]
             ELSE q

\* ArchiveBytes.Process
CopyBytes(p, entry, io) == IF io = "write" THEN [p EXCEPT !.err = ErrIO] ELSE p

\* One round of Stream's EntryLoop for an entry, through the processors of
\* op in their order.
ProcessEntry(op, p, entry, io) ==
    IF entry.name = "./" \/ SingleSkips(op, entry) THEN p
    ELSE LET e == CheckEmpty(p, entry)
             m == IF op \in Extracting THEN CheckMaxSize(e, entry) ELSE e
         IN  IF m.err # Nil THEN m
             ELSE IF op \in Extracting THEN Extract(m, entry, io)
             ELSE CopyBytes(m, entry, io)

\* ArchiveExtract.Clean
CleanTempDir(p) ==
    IF p.tempDir # NoTempDir THEN [p EXCEPT !.dirExists = FALSE] ELSE p

\* Single, Multi or SingleBytes up to and including its go statement.
ArchiveCall ==
    /\ apc = "idle"
    /\ apc' = "called"
    /\ gpc' = "stream"
    /\ UNCHANGED <<archiveOp, tarball, tarEnd, pos, processors, cleaned,
                   renamed, sending, errsClosed, delivered>>
    /\ UNCHANGED <<lifecycleVars, fetchVars, pureVars>>

\* The return of Single, Multi or SingleBytes: the deferred extract.Clean()
\* runs, and the caller has the channel.
ArchiveReturn ==
    /\ apc = "called"
    /\ gpc # "panicked"
    /\ apc' = "returned"
    /\ IF archiveOp \in Extracting
       THEN /\ processors' = CleanTempDir(processors)
            /\ cleaned' = [at |-> gpc, pending |-> pos <= Len(tarball),
                            removed |-> processors.dirExists]
       ELSE UNCHANGED <<processors, cleaned>>
    /\ UNCHANGED <<archiveOp, tarball, tarEnd, pos, gpc, renamed, sending,
                   errsClosed, delivered>>
    /\ UNCHANGED <<lifecycleVars, fetchVars, pureVars>>

\* The goroutine: tarball.Next() gives an entry, and the processors run.
StreamEntry(io) ==
    LET p == ProcessEntry(archiveOp, processors, tarball[pos], io)
    IN  /\ gpc = "stream"
        /\ pos <= Len(tarball)
        /\ processors' = p
        /\ pos' = pos + 1
        /\ IF p.err # Nil
           THEN gpc' = "send" /\ sending' = p.err
           ELSE UNCHANGED <<gpc, sending>>
        /\ UNCHANGED <<archiveOp, tarball, tarEnd, apc, cleaned, renamed,
                       errsClosed, delivered>>
        /\ UNCHANGED <<lifecycleVars, fetchVars, pureVars>>

\* The goroutine: tarball.Next() gives no further entry.  On io.EOF Stream
\* returns nil and the goroutine goes on to its send; on another error hdr
\* is nil and hdr.Name panics, the deferred close(errs) running on the way.
StreamEnd ==
    /\ gpc = "stream"
    /\ pos > Len(tarball)
    /\ IF tarEnd = "error"
       THEN /\ gpc' = "panicked"
            /\ errsClosed' = TRUE
            /\ UNCHANGED <<sending, renamed>>
       ELSE IF ~processors.hasFiles
       THEN /\ gpc' = "send"
            /\ sending' = ErrEmptyTarball
            /\ UNCHANGED <<errsClosed, renamed>>
       ELSE /\ gpc' = "send"
            /\ sending' = Nil
            /\ renamed' = IF archiveOp = "Multi"
                          THEN IF processors.dirExists THEN "done" ELSE "failed"
                          ELSE renamed
            /\ UNCHANGED errsClosed
    /\ UNCHANGED <<archiveOp, tarball, tarEnd, pos, apc, processors, cleaned,
                   delivered>>
    /\ UNCHANGED <<lifecycleVars, fetchVars, pureVars>>

\* The caller receives on the channel while the goroutine is at its send.
Receive ==
    /\ apc = "returned"
    /\ gpc = "send"
    /\ delivered' = Append(delivered, sending)
    /\ gpc' = "sent"
    /\ UNCHANGED <<archiveOp, tarball, tarEnd, pos, apc, processors, cleaned,
                   renamed, sending, errsClosed>>
    /\ UNCHANGED <<lifecycleVars, fetchVars, pureVars>>

\* The goroutine returns after its send: defer close(errs).
GoroutineExit ==
    /\ gpc = "sent"
    /\ gpc' = "done"
    /\ errsClosed' = TRUE
    /\ UNCHANGED <<archiveOp, tarball, tarEnd, pos, apc, processors, cleaned,
                   renamed, sending, delivered>>
    /\ UNCHANGED <<lifecycleVars, fetchVars, pureVars>>

NotCleaned == [at |-> "none", pending |-> FALSE, removed |-> FALSE]

\* No goroutine started, nothing extracted, an open channel with no value.
ArchiveNew ==
    /\ pos = 1
    /\ apc = "idle"
    /\ gpc = "none"
    /\ processors = NewProcessors
    /\ cleaned = NotCleaned
    /\ renamed = "no"
    /\ sending = Nil
    /\ errsClosed = FALSE
    /\ delivered = <<>>

\* No Archive operation under way.
ArchiveIdle ==
    /\ archiveOp = "Single"
    /\ tarball = <<>>
    /\ tarEnd = "EOF"
    /\ ArchiveNew

\* ---- specification -----------------------------------------------------
\* The state NewDockerBox leaves: no services, no container, no images.
LifecycleNew ==
    /\ services = <<>>
    /\ container = NilContainer
    /\ images = <<>>
    /\ svcContainer = [s \in ServiceBoxes |-> NilContainer]
    /\ engine = {}
    /\ engineImages = {}
    /\ created = 0
    /\ committed = 0
    /\ lastOp = "NewDockerBox"
    /\ log = <<>>
    /\ ret = Nil

\* No Fetch made yet.
FetchNew ==
    /\ cachedImage = NilImage
    /\ fetches = 0
    /\ fpc = "idle"
    /\ tasks = <<>>
    /\ flog = <<>>
    /\ fret = FetchReturn(NilImage, NoError)

BoxNew == LifecycleNew /\ FetchNew

\* No call of NewDockerBox or portBindings under way.
PureIdle ==
    /\ boxConfigID = <<>>
    /\ boxConfigTag = <<>>
    /\ newBox = NotConstructed
    /\ published = <<>>
    /\ portsPc = "idle"
    /\ portMap = EmptyMap

Init ==
    /\ BoxNew
    /\ PureIdle
    /\ ArchiveIdle
    /\ shouldCommit \in BOOLEAN
    /\ cmdSplits \in BOOLEAN
    /\ dockerLocal = FALSE
    /\ repository = "repoA"

Next ==
    \/ \E service \in ServiceBoxes : AddService(service)
    \/ \E out \in SvcOracles(Len(services)) : RunServices(out)
    \/ \E o \in RunOracles(Len(services)) : Run(o)
    \/ \E want \in {Nil, ErrCommit} : Commit(want)
    \/ \E want \in {Nil, ErrRestart} : Restart(want)
    \/ \E out \in StopOracles(Len(StopLog(services, svcContainer, container,
                                           [i \in 1 .. MaxServices + 1 |-> Nil]))) :
          Stop(out)
    \/ \E o \in CleanOracles(
                 Len(CleanContainers(container, services, svcContainer)),
                 Len(images)) :
          Clean(o)

Spec == Init /\ [][Next]_vars

\* The lifecycle operations on a Box whose one Fetch, on the remote path,
\* has succeeded and whose emitter task has ended.
Fetched ==
    /\ cachedImage = Inspected(1)
    /\ fetches = 1
    /\ fpc = "returned"
    /\ tasks = <<[NewTask EXCEPT !.closed = TRUE, !.emitter = "done"]>>
    /\ flog = <<FetchCall("CheckAccess", TRUE, NoError),
                FetchCall("PullImage", TRUE, NoError),
                FetchCall("InspectImage", TRUE, NoError)>>
    /\ fret = FetchReturn(NilImage, NoError)

FetchedInit ==
    /\ LifecycleNew
    /\ Fetched
    /\ PureIdle
    /\ ArchiveIdle
    /\ shouldCommit \in BOOLEAN
    /\ cmdSplits \in BOOLEAN
    /\ dockerLocal = FALSE
    /\ repository = "repoA"

SpecFetched == FetchedInit /\ [][Next]_vars

\* Fetch alone, on a Box as constructed.  The emitter task is a goroutine:
\* the scheduler lets it take its next read whenever that read can return.
FetchInit ==
    /\ BoxNew
    /\ PureIdle
    /\ ArchiveIdle
    /\ shouldCommit = FALSE
    /\ cmdSplits = TRUE
    /\ dockerLocal \in BOOLEAN
    /\ repository \in Repositories

FetchNext ==
    \/ \E o \in FetchOracles : FetchBegin(o)
    \/ PullWrite
    \/ \E o \in PullOracles : PullReturn(o)
    \/ \E n \in 1 .. MaxFetches : EmitRead(n)

SpecFetch ==
    /\ FetchInit
    /\ [][FetchNext]_vars
    /\ \A n \in 1 .. MaxFetches : WF_vars(EmitRead(n))

\* NewDockerBox applied to every identifier and explicit tag.
ConfigIdle ==
    /\ shouldCommit = FALSE
    /\ cmdSplits = TRUE
    /\ dockerLocal = FALSE
    /\ repository = "repoA"

NewBoxInit ==
    /\ BoxNew
    /\ ConfigIdle
    /\ ArchiveIdle
    /\ boxConfigID \in Identifiers
    /\ boxConfigTag \in Tags
    /\ newBox = NotConstructed
    /\ published = <<>>
    /\ portsPc = "idle"
    /\ portMap = EmptyMap

NewBoxNext == \E clientErr \in {Nil, ErrNewClient} : NewDockerBox(clientErr)

SpecNewBox == NewBoxInit /\ [][NewBoxNext]_vars

\* portBindings applied to every list of publish specs.
PortsInit ==
    /\ BoxNew
    /\ ConfigIdle
    /\ ArchiveIdle
    /\ boxConfigID = <<>>
    /\ boxConfigTag = <<>>
    /\ newBox = NotConstructed
    /\ published \in Lists(PortDefs, MaxSpecs)
    /\ portsPc = "idle"
    /\ portMap = EmptyMap

PortsNext == PortBindingsCall

SpecPorts == PortsInit /\ [][PortsNext]_vars

\* One call of Single, Multi or SingleBytes on every tarball, its goroutine
\* and the caller's receive.
ArchiveInit ==
    /\ BoxNew
    /\ ConfigIdle
    /\ PureIdle
    /\ archiveOp \in ArchiveOps
    /\ tarball \in Lists(Entries, MaxEntries)
    /\ tarEnd \in StreamEnds
    /\ ArchiveNew

ArchiveNext ==
    \/ ArchiveCall
    \/ ArchiveReturn
    \/ \E io \in {"ok", "tempdir", "write"} : StreamEntry(io)
    \/ StreamEnd
    \/ Receive
    \/ GoroutineExit

SpecArchive == ArchiveInit /\ [][ArchiveNext]_vars

\* ---- properties --------------------------------------------------------
ServiceRunCalls == SelectOp(log, "service.Run")
RemoveContainerCalls == SelectOp(log, "RemoveContainer")
RemoveImageCalls == SelectOp(log, "RemoveImage")
PrimaryCalls == {i \in DOMAIN log : log[i].op \in {"CreateContainer",
                                                   "StartContainer"}}

\* The links of the first n attached services, in insertion order.
LinksOfFirst(n) == [j \in 1 .. n |-> Link(services[j])]

\* C1: RunServices (alone or inside Run) starts the services one at a time
\* in insertion order: the k-th call it issues is the start of the k-th
\* attached service, and the link list passed to it is the links of services
\* 1..k-1 in that order.
C1_ServicesStartInOrder ==
    lastOp \in {"RunServices", "Run"} =>
        /\ Len(ServiceRunCalls) <= Len(services)
        /\ \A k \in 1 .. Len(ServiceRunCalls) :
              /\ log[k] = ServiceRunCalls[k]
              /\ log[k].arg = ServiceArg(services[k])
              /\ log[k].links = LinksOfFirst(k - 1)

C1_Witness ==
    /\ lastOp = "RunServices"
    /\ ret = Nil
    /\ Len(ServiceRunCalls) = 3
    /\ ServiceRunCalls[1].links = <<>>
    /\ Len(ServiceRunCalls[3].links) = 2

\* C2: if the start of service k fails, RunServices returns that error, the
\* failed start is the last call it issues (no later service is started),
\* and the link list passed to service k has the k-1 links of the services
\* started before it.
C2_FirstFailureAborts ==
    lastOp = "RunServices" =>
        \A k \in 1 .. Len(log) :
            log[k].res # Nil =>
                /\ ret = log[k].res
                /\ k = Len(log)
                /\ log[k].arg = ServiceArg(services[k])
                /\ \A j \in 1 .. k - 1 : log[j].res = Nil
                /\ log[k].links = LinksOfFirst(k - 1)
                /\ \A j \in k + 1 .. Len(services) :
                      \A i \in 1 .. Len(log) : log[i].arg # ServiceArg(services[j])

C2_Witness ==
    /\ lastOp = "RunServices"
    /\ Len(services) = 3
    /\ Len(log) = 2
    /\ log[2].res # Nil
    /\ ret = log[2].res
    /\ log[2].links = <<Link(services[1])>>

\* C3: in Run, a CreateContainer or StartContainer call for the primary
\* container comes only after a successful start of every attached service;
\* if a service start fails, Run returns that error and issues neither call.
C3_PrimaryAfterServices ==
    lastOp = "Run" =>
        /\ \A i \in PrimaryCalls :
              \A k \in 1 .. Len(services) :
                  \E j \in 1 .. i - 1 :
                      /\ log[j].op = "service.Run"
                      /\ log[j].arg = ServiceArg(services[k])
                      /\ log[j].res = Nil
        /\ \A j \in 1 .. Len(log) :
              (log[j].op = "service.Run" /\ log[j].res # Nil) =>
                  (ret = log[j].res /\ PrimaryCalls = {})

C3_Witness ==
    /\ lastOp = "Run"
    /\ Len(services) = 3
    /\ Len(ServiceRunCalls) = 3
    /\ \E i \in PrimaryCalls : log[i].op = "CreateContainer"
    /\ \E i \in PrimaryCalls : log[i].op = "StartContainer"

\* C4: Run is strict: when the CreateContainer or the StartContainer call
\* of Run fails, Run returns that error.
C4_RunStrict ==
    lastOp = "Run" =>
        \A i \in PrimaryCalls : log[i].res # Nil => ret = log[i].res

\* C5: the container handle changes only in a Run in which the primary
\* container was created and started without an engine error; any other
\* step, a failing Run included, leaves the handle as it was (it is absent
\* initially).
C5_HandleOnlyAfterSuccess ==
    [][container' # container =>
          /\ lastOp' = "Run"
          /\ ret' = Nil
          /\ \A i \in 1 .. Len(log') : log'[i].res = Nil
          /\ \E i \in 1 .. Len(log') :
                log'[i].op = "StartContainer" /\ log'[i].arg = container']_vars

\* C6: no orphaned containers: after a Clean that returns nil, the engine
\* holds no container that a Run of this Box created.
C6_NoOrphanAfterClean ==
    (lastOp = "Clean" /\ ret = Nil) =>
        \A n \in 1 .. created : BoxCID(n) \notin engine

\* The stop calls Stop has to issue in the current state.
StopTargets ==
    [k \in 1 .. Len(services) |-> GetID(svcContainer, services[k])]
    \o (IF container # NilContainer THEN <<container>> ELSE <<>>)

\* C7: Stop issues one stop call per attached service, in list order, then
\* one for the primary container if a handle is present, whatever the
\* results of the earlier calls, and reports no error.
C7_StopTolerant ==
    lastOp = "Stop" =>
        /\ ret = Nil
        /\ Len(log) = Len(StopTargets)
        /\ \A k \in 1 .. Len(log) :
              log[k].op = "StopContainer" /\ log[k].arg = StopTargets[k]

C7_Witness ==
    /\ lastOp = "Stop"
    /\ Len(services) >= 2
    /\ container # NilContainer
    /\ Len(log) = Len(services) + 1
    /\ \A k \in 1 .. Len(log) : log[k].res # Nil
    /\ log[1].res = ErrStop
    /\ \E k \in 2 .. Len(log) : log[k].res = ErrNotRunning

\* The list Clean collects in the current state: the primary container's ID
\* if a handle is present, then the non-empty IDs the services report.
IsID(id) == id # EmptyID
CollectedList ==
    (IF container # NilContainer THEN <<container>> ELSE <<>>)
    \o SelectSeq([k \in 1 .. Len(services) |->
                     GetID(svcContainer, services[k])], IsID)

\* C8: when a container removal fails, Clean returns that error, the failed
\* removal is the last call it issues (no later container of the collected
\* list is removed) and it issues no image removal.
C8_CleanAbortsOnRemovalFailure ==
    lastOp = "Clean" =>
        \A k \in 1 .. Len(log) :
            (log[k].op = "RemoveContainer" /\ log[k].res # Nil) =>
                /\ ret = log[k].res
                /\ k = Len(log)
                /\ RemoveImageCalls = <<>>

C8_Witness ==
    /\ lastOp = "Clean"
    /\ ~shouldCommit
    /\ Len(images) >= 1
    /\ Len(CollectedList) = 3
    /\ Len(log) = 2
    /\ log[1].res = Nil
    /\ log[2].res = ErrRemove
    /\ ret = ErrRemove
    /\ CollectedList[3] \in engine

\* C9 as stated: Clean issues exactly one forced, volume-removing removal
\* call per entry of the collected list, in that order, and none for any
\* other ID.
C9_OneRemovalPerEntry ==
    lastOp = "Clean" =>
        /\ Args(RemoveContainerCalls) = CollectedList
        /\ \A k \in 1 .. Len(RemoveContainerCalls) :
              RemoveContainerCalls[k].opts = {"Force", "RemoveVolumes"}

\* C9 amended: the removal calls of Clean are forced and volume-removing and
\* go through the collected list in order, one call per entry, up to and
\* including the first entry whose removal fails: through the whole list
\* when no removal fails.
C9_RemovalsFollowList ==
    lastOp = "Clean" =>
        LET calls == RemoveContainerCalls
            failed == {k \in 1 .. Len(calls) : calls[k].res # Nil}
        IN  /\ Len(calls) <= Len(CollectedList)
            /\ Args(calls) = SubSeq(CollectedList, 1, Len(calls))
            /\ \A k \in 1 .. Len(calls) :
                  calls[k].opts = {"Force", "RemoveVolumes"}
            /\ failed = {} => Len(calls) = Len(CollectedList)
            /\ \A k \in failed : k = Len(calls)

C9_Witness ==
    /\ lastOp = "Clean"
    /\ ret = Nil
    /\ container # NilContainer
    /\ \E k \in 1 .. Len(services) : svcContainer[services[k]] = NilContainer
    /\ Len(RemoveContainerCalls) = 3
    /\ RemoveContainerCalls[1].arg = container

\* C10: when every container removal succeeds, Clean issues one image
\* removal per committed image, most recent first, if 'should commit' is
\* false, and no image removal if it is true.
C10_ImagesRemovedInReverse ==
    (lastOp = "Clean" /\ \A k \in 1 .. Len(RemoveContainerCalls) :
                            RemoveContainerCalls[k].res = Nil) =>
        IF shouldCommit
        THEN RemoveImageCalls = <<>>
        ELSE Args(RemoveImageCalls) = Reverse(images)

C10_Witness ==
    /\ lastOp = "Clean"
    /\ ~shouldCommit
    /\ Len(images) = 2
    /\ Len(RemoveContainerCalls) >= 1
    /\ Len(RemoveImageCalls) = 2
    /\ RemoveImageCalls[1].arg = images[2]

\* C11: when every container removal succeeds, Clean returns nil whatever
\* the results of the image removals, and (with 'should commit' false) it
\* issues a removal for every committed image even after one of them failed.
C11_ImageFailuresSwallowed ==
    (lastOp = "Clean" /\ \A k \in 1 .. Len(RemoveContainerCalls) :
                            RemoveContainerCalls[k].res = Nil) =>
        /\ ret = Nil
        /\ ~shouldCommit => Len(RemoveImageCalls) = Len(images)

C11_Witness ==
    /\ lastOp = "Clean"
    /\ ret = Nil
    /\ Len(RemoveContainerCalls) >= 1
    /\ Len(RemoveImageCalls) = 2
    /\ RemoveImageCalls[1].res = ErrRemoveImage
    /\ RemoveImageCalls[2].res = Nil

\* C12: a Clean during which the engine fails no removal of an existing
\* container (a later pass included) returns nil and leaves none of the
\* containers of its list in the engine.
C12_CleanToleratesLaterPass ==
    (lastOp = "Clean" /\ \A k \in 1 .. Len(log) : log[k].res # ErrRemove) =>
        /\ ret = Nil
        /\ \A k \in 1 .. Len(CollectedList) : CollectedList[k] \notin engine

\* C13: a successful Commit appends the image the engine returned to the
\* image list, a failing Commit leaves the list as it was, and no other
\* operation changes it: the list is the images of the successful commits
\* in call order.
C13_ImagesAreCommitsInOrder ==
    [][/\ (lastOp' = "Commit" /\ ret' = Nil) =>
              /\ Len(log') = 1 /\ log'[1].res = Nil
              /\ images' = images \o <<ImgID(committed')>>
              /\ committed' = committed + 1
       /\ ~(lastOp' = "Commit" /\ ret' = Nil) =>
              (images' = images /\ committed' = committed)
       /\ images' = [i \in 1 .. committed' |-> ImgID(i)]]_vars

C13_Witness ==
    /\ lastOp = "Commit"
    /\ ret = Nil
    /\ images = <<ImgID(1), ImgID(2)>>

\* C14: Commit and Restart on a Box without a container handle return an
\* error, issue no engine call and do not crash.
C14_NoHandleReturnsError ==
    (lastOp \in {"Commit", "Restart"} /\ container = NilContainer) =>
        /\ log = <<>>
        /\ ret # Nil
        /\ ret # PanicNilContainer

\* C20: the link list Run passes to StartContainer is the links of all
\* attached services in insertion order, the list RunServices accumulated
\* (the links passed to the last service plus the last service's own link);
\* the service list changes only by AddService appending to it.
C20_StartLinksAndAppendOnly ==
    [][/\ lastOp' = "Run" =>
              \A i \in 1 .. Len(log') :
                  log'[i].op = "StartContainer" =>
                      /\ Len(log'[i].links) = Len(services')
                      /\ \A j \in 1 .. Len(services') :
                            log'[i].links[j] = Link(services'[j])
                      /\ Len(services') > 0 =>
                            log'[i].links =
                                Append(log'[Len(services')].links,
                                       Link(services'[Len(services')]))
       /\ services' # services =>
              /\ lastOp' = "AddService"
              /\ Len(services') = Len(services) + 1
              /\ SubSeq(services', 1, Len(services)) = services]_vars

C20_Witness ==
    /\ lastOp = "Run"
    /\ Len(services) = 3
    /\ \E i \in 1 .. Len(log) :
          log[i].op = "StartContainer" /\ Len(log[i].links) = 3

\* ---- Fetch ------------------------------------------------------------
FetchIssued(fl, op) == \E i \in 1 .. Len(fl) : fl[i].op = op

\* Fetch n made a pipe and has returned.
FetchReturned(n) ==
    /\ n \in DOMAIN tasks
    /\ (n < Len(tasks) \/ fpc = "returned")

\* C15: Fetch issues PullImage only with the local shortcut disabled and
\* right after a CheckAccess that returned true without error; with the
\* shortcut enabled it calls neither CheckAccess nor PullImage; a CheckAccess
\* that returns an error or false makes Fetch return that error, or the
\* access-denied error naming the repository, with no pull, no emitter task
\* started and the cached image unchanged.
C15_PullOnlyAfterAccess ==
    [][/\ \A i \in 1 .. Len(flog') :
              flog'[i].op = "PullImage" =>
                  /\ ~dockerLocal
                  /\ i = 2
                  /\ flog'[1] = FetchCall("CheckAccess", TRUE, NoError)
       /\ Len(tasks') > Len(tasks) => FetchIssued(flog', "PullImage")
       /\ dockerLocal => /\ ~FetchIssued(flog', "CheckAccess")
                         /\ ~FetchIssued(flog', "PullImage")
       /\ \A i \in 1 .. Len(flog') :
              (/\ fetches' # fetches
               /\ flog'[i].op = "CheckAccess"
               /\ (flog'[i].err # NoError \/ ~flog'[i].ok)) =>
                  /\ fpc' = "returned"
                  /\ fret'.err = IF flog'[i].err # NoError
                                 THEN flog'[i].err
                                 ELSE ErrAccessDenied(repository)
                  /\ ~FetchIssued(flog', "PullImage")
                  /\ tasks' = tasks
                  /\ cachedImage' = cachedImage]_vars

\* A Fetch is denied access after an earlier Fetch cached an image.
C15_Witness ==
    /\ fpc = "returned"
    /\ fetches = 2
    /\ flog = <<FetchCall("CheckAccess", FALSE, NoError)>>
    /\ fret = FetchReturn(NilImage, ErrAccessDenied(repository))
    /\ cachedImage = Inspected(1)
    /\ Len(tasks) = 1

\* C16: on the remote path a Fetch whose access check, pull and inspect all
\* succeed caches the inspected image and returns a nil handle with a nil
\* error; on the local path a successful Fetch returns the inspected handle
\* it cached.
C16_FetchResult ==
    /\ (/\ fpc = "returned"
        /\ ~dockerLocal
        /\ Len(flog) = 3
        /\ \A i \in 1 .. 3 : flog[i].ok /\ flog[i].err = NoError) =>
           /\ cachedImage = Inspected(fetches)
           /\ fret = FetchReturn(NilImage, NoError)
    /\ (/\ fpc = "returned"
        /\ dockerLocal
        /\ flog = <<FetchCall("InspectImage", TRUE, NoError)>>) =>
           /\ cachedImage = Inspected(fetches)
           /\ fret = FetchReturn(cachedImage, NoError)

\* The second Fetch succeeds on the remote path and replaces the image the
\* first one cached.
C16_Witness ==
    /\ fpc = "returned"
    /\ ~dockerLocal
    /\ fetches = 2
    /\ Len(flog) = 3
    /\ flog[3] = FetchCall("InspectImage", TRUE, NoError)
    /\ cachedImage = Inspected(2)
    /\ Len(tasks) = 2

\* C17: whenever a Fetch that started the emitter task has returned, on the
\* success, pull-error and inspect-error paths alike, the write end of its
\* pipe is closed, and the emitter task, which Fetch does not wait for,
\* eventually reads end-of-stream and terminates.
C17_EmitterTerminates ==
    /\ [](\A n \in 1 .. MaxFetches : FetchReturned(n) => tasks[n].closed)
    /\ \A n \in 1 .. MaxFetches :
           FetchReturned(n) ~> (n \in DOMAIN tasks /\ tasks[n].emitter = "done")

\* Fetch has returned the pull's error after a chunk was written, and the
\* emitter task is still running.
C17_Witness ==
    /\ fpc = "returned"
    /\ fret = FetchReturn(NilImage, ErrPull)
    /\ Len(tasks) = 1
    /\ tasks[1].written >= 1
    /\ tasks[1].closed
    /\ tasks[1].emitter = "reading"

\* ---- identity resolution and port bindings ----------------------------
\* Positions of the first and the last c in s, 0 if there is none.
FirstIndex(s, c) ==
    IF Contains(s, c)
    THEN CHOOSE i \in 1 .. Len(s) : s[i] = c /\ \A j \in 1 .. i - 1 : s[j] # c
    ELSE 0

LastIndex(s, c) ==
    IF Contains(s, c)
    THEN CHOOSE i \in 1 .. Len(s) : s[i] = c /\ \A j \in i + 1 .. Len(s) : s[j] # c
    ELSE 0

BeforeFirst(s, c) ==
    IF Contains(s, c) THEN SubSeq(s, 1, FirstIndex(s, c) - 1) ELSE s
AfterFirst(s, c) == SubSeq(s, FirstIndex(s, c) + 1, Len(s))
AfterLast(s, c) == SubSeq(s, LastIndex(s, c) + 1, Len(s))

\* C18: an identifier containing '@' yields an error and no Box; otherwise
\* the Box has as repository the identifier up to its first ':', as tag the
\* explicit tag if non-empty, else what follows that ':' if there is one,
\* else "latest", as name repository:tag, and as short name the last
\* '/'-delimited segment of the repository.
C18_IdentityResolution ==
    newBox # NotConstructed =>
        IF Contains(boxConfigID, "@")
        THEN newBox.state = "error"
        ELSE newBox.state = "box" =>
                LET repo == BeforeFirst(boxConfigID, ":")
                    tag == IF boxConfigTag # <<>> THEN boxConfigTag
                           ELSE IF Contains(boxConfigID, ":")
                           THEN AfterFirst(boxConfigID, ":")
                           ELSE Latest
                IN  newBox = Box(repo \o <<":">> \o tag, AfterLast(repo, "/"),
                                 repo, tag)

\* What the claim's words give for a publish spec with fields f.
ExpectedPort(f) ==
    LET c == f[Len(f)]
    IN  IF Contains(c, "/") THEN c ELSE c \o <<"/", "tcp">>

ExpectedBinding(f) ==
    LET hostField == IF Len(f) = 3 THEN f[2] ELSE f[1]
    IN  PortBinding(IF hostField = <<>> THEN BeforeFirst(f[Len(f)], "/")
                    ELSE BeforeFirst(hostField, "/"),
                    IF Len(f) = 3 THEN f[1] ELSE <<>>)

\* The key under which the loop files a spec: its container port, which is
\* empty for a spec of more than three fields.
MapKey(portdef) ==
    LET f == Split(portdef, ":")
    IN  IF Len(f) \in 1 .. 3 THEN ExpectedPort(f) ELSE <<"/", "tcp">>

Overridden(i) ==
    \E j \in i + 1 .. Len(published) :
        MapKey(published[j]) = MapKey(published[i])

\* C19 as stated: every publish spec of one to three fields has its
\* container port (with "/tcp" when it names no protocol) mapped to the
\* singleton list of its own binding: the host-port field without its
\* protocol (the container port's number when that field is empty) and the
\* host IP of the three-field form.
C19_EverySpecBound ==
    portsPc = "done" =>
        \A i \in 1 .. Len(published) :
            LET f == Split(published[i], ":")
            IN  Len(f) \in 1 .. 3 =>
                    /\ ExpectedPort(f) \in DOMAIN portMap
                    /\ portMap[ExpectedPort(f)] = <<ExpectedBinding(f)>>

\* C19 amended: the same for every publish spec of one to three fields that
\* no later spec of the list files under the same key.
C19_LastSpecBound ==
    portsPc = "done" =>
        \A i \in 1 .. Len(published) :
            LET f == Split(published[i], ":")
            IN  (Len(f) \in 1 .. 3 /\ ~Overridden(i)) =>
                    /\ ExpectedPort(f) \in DOMAIN portMap
                    /\ portMap[ExpectedPort(f)] = <<ExpectedBinding(f)>>

\* "8080:80" followed by "10.0.0.1:8080:80": port 80/tcp is bound to
\* 10.0.0.1 port 8080.
C19_Witness ==
    /\ portsPc = "done"
    /\ published = << <<"8080", ":", "80">>,
                      <<"10.0.0.1", ":", "8080", ":", "80">> >>
    /\ portMap[<<"80", "/", "tcp">>] = <<PortBinding(<<"8080">>, <<"10.0.0.1">>)>>

\* ---- frame of Stop, Clean and Restart ---------------------------------
\* C21: whatever their outcome, Stop, Clean and Restart leave the container
\* handle, the image list, the service list and the cached image as they
\* were; Clean in particular keeps the handle and the image list of what it
\* removed from the engine.
C21_TeardownFrame ==
    [][lastOp' \in {"Stop", "Clean", "Restart"} =>
           /\ container' = container
           /\ images' = images
           /\ services' = services
           /\ cachedImage' = cachedImage]_vars

\* A Clean has removed the primary container and a committed image from the
\* engine, and the Box still holds the handle, the image and the cached
\* image.
C21_Witness ==
    /\ lastOp = "Clean"
    /\ ret = Nil
    /\ container # NilContainer
    /\ container \notin engine
    /\ Len(services) >= 1
    /\ Len(images) >= 1
    /\ images[1] \notin engineImages
    /\ cachedImage = Inspected(1)

\* ---- Archive ----------------------------------------------------------
\* The entries of the tarball that get as far as the empty check.
ReachesEmptyCheck(i) ==
    /\ tarball[i].name # "./"
    /\ ~SingleSkips(archiveOp, tarball[i])

\* What the claim gives as the one value of the channel.
ExpectedValue ==
    IF processors.err # Nil THEN processors.err
    ELSE IF \A i \in 1 .. Len(tarball) : ReachesEmptyCheck(i) => tarball[i].dir
    THEN ErrEmptyTarball
    ELSE Nil

\* C22: in Single and Multi, ArchiveExtract.Clean never runs while the
\* goroutine still has entries to extract or before Multi's Rename, and
\* when the operation is over (result delivered, goroutine ended) the temp
\* directory of the extraction no longer exists.
C22_CleanAfterGoroutine ==
    archiveOp \in Extracting =>
        /\ cleaned.at # "none" =>
               /\ ~cleaned.pending
               /\ ~(archiveOp = "Multi" /\ cleaned.at = "stream")
        /\ (delivered # <<>> /\ gpc = "done") => ~processors.dirExists

\* C23: the channel delivers exactly one value and is closed only after
\* it: the processor's error if one failed, ErrEmptyTarball if no
\* non-directory entry reached the empty check, nil otherwise; once the
\* value is taken the goroutine is past its send and ends.
C23_OneValueThenClosed ==
    /\ Len(delivered) <= 1
    /\ errsClosed => Len(delivered) = 1
    /\ delivered # <<>> =>
           /\ delivered[1] = ExpectedValue
           /\ gpc \in {"sent", "done"}
    /\ gpc \in {"done", "panicked"} => (errsClosed /\ Len(delivered) = 1)

====
